---- MODULE Spec2Model ----
(***************************************************************************)
(* Model of the identity service: users, feature flags and the             *)
(* user_feature_flags assignment relation, as kept by the PostgreSQL       *)
(* store through GORM, and the service operations that read and write     *)
(* them.  Every store call of a service operation is one atomic step, so   *)
(* that concurrent requests interleave between store calls as the          *)
(* handlers' goroutines do.                                                *)
(***************************************************************************)
EXTENDS Integers, FiniteSets, Sequences, Bags, TLC

\* ------------------------------------------------------------------ bounds
MaxUsers == 3
MaxFlags == 2
MaxTotal == 25
MaxPageSizeArg == 12

Procs == {"p1", "p2"}
Names == {"n1", "n2"}
Emails == {"e1", "e2"}
Keys == {"k1", "k2"}
Descriptions == {"d1", "d2"}

UserIds == 1..MaxUsers
FlagIds == 1..MaxFlags

\* the optional (pointer) fields of an update request: nil, or a value
Absent == <<>>
Some(v) == <<v>>
Optional(S) == {Absent} \cup {Some(v) : v \in S}

VARIABLES
    users,      \* table users: id -> row
    userSeq,    \* sequence behind users.id (SERIAL)
    flags,      \* table feature_flags: id -> row
    flagSeq,    \* sequence behind feature_flags.id (SERIAL)
    ufs,        \* table user_feature_flags: bag of <<user_id, feature_flag_id>>
    pc,         \* per request goroutine: the store call it makes next
    req,        \* per request goroutine: operation and arguments
    loc,        \* per request goroutine: local variables of the service method
    res,        \* per request goroutine: what the finished operation returned
    pre         \* history: the tables as they were when the request was issued

vars == <<users, userSeq, flags, flagSeq, ufs, pc, req, loc, res, pre>>
store == <<users, userSeq, flags, flagSeq, ufs>>

\* ------------------------------------------------------------- error values
OK == "ok"
ErrUserNotFound == "user not found"
ErrFlagNotFound == "feature flag not found"
ErrEmailExists == "email already exists"
ErrKeyExists == "feature flag key already exists"
ErrAlreadyAssigned == "feature flag already assigned to user"
ErrCreateUser == "failed to create user"
ErrUpdateUser == "failed to update user"
ErrCreateFlag == "failed to create feature flag"
ErrUpdateFlag == "failed to update feature flag"
ErrAssign == "failed to assign feature flag"
ErrGetUser == "failed to get user"

NoReq == [op |-> "none"]
NoLoc == [at |-> "none"]
NoRes == [err |-> "none"]
NoPre == [at |-> "none"]

\* ------------------------------------------------------------------ schema
\* gorm:"default:true" on User.Enabled: a zero value is left to the column default
UserEnabledDefault(enabled) == IF enabled = FALSE THEN TRUE ELSE enabled

\* gorm:"default:false" on FeatureFlag.Enabled
FlagEnabledDefault(enabled) == IF enabled = FALSE THEN FALSE ELSE enabled

\* mutant: users.email without its UNIQUE constraint
EmailFreeUnchecked(us, id, email) == TRUE

\* users.email UNIQUE: no row other than `id` holds `email`, deleted or not
EmailFree(us, id, email) == \A i \in DOMAIN us : i = id \/ us[i].email /= email

\* feature_flags.key UNIQUE
KeyFree(fs, id, key) == \A i \in DOMAIN fs : i = id \/ fs[i].key /= key

\* mutant: user_feature_flags without its primary key
PairFreeUnchecked(b, uid, fid) == TRUE

\* PRIMARY KEY (user_id, feature_flag_id)
PairFree(b, uid, fid) == ~BagIn(<<uid, fid>>, b)

\* FOREIGN KEY (user_id) REFERENCES users(id), (feature_flag_id) REFERENCES feature_flags(id)
PairReferenced(us, fs, uid, fid) == uid \in DOMAIN us /\ fid \in DOMAIN fs

\* ------------------------------------------------------------ repositories
\* rows a default (soft-delete scoped) query sees
VisibleUsers(us) == {i \in DOMAIN us : ~us[i].deleted}
VisibleFlags(fs) == {i \in DOMAIN fs : ~fs[i].deleted}

\* mutant: the count query with its two columns swapped
IsFeatureFlagAssignedToUserSwapped(b, uid, fid) == CopiesIn(<<fid, uid>>, b) > 0

\* userFeatureFlagRepository.IsFeatureFlagAssignedToUser: count > 0
IsFeatureFlagAssignedToUser(b, uid, fid) == CopiesIn(<<uid, fid>>, b) > 0

\* mutant: the join without its WHERE user_feature_flags.user_id = ?
RepoGetUserFeatureFlagsAnyUser(fs, b, uid) ==
    {f \in VisibleFlags(fs) : \E x \in BagToSet(b) : x[2] = f}

\* userFeatureFlagRepository.GetUserFeatureFlags: feature_flags JOIN user_feature_flags
RepoGetUserFeatureFlags(fs, b, uid) ==
    {f \in VisibleFlags(fs) : BagIn(<<uid, f>>, b)}

\* the number of rows that join returns: one for each user_feature_flags row it matches
RepoGetUserFeatureFlagsLen(fs, b, uid) ==
    BagCardinality([x \in {<<uid, f>> : f \in VisibleFlags(fs)} \cap BagToSet(b) |->
                       CopiesIn(x, b)])

\* userFeatureFlagRepository.GetFeatureFlagUsers: users JOIN user_feature_flags
RepoGetFeatureFlagUsers(us, b, fid) ==
    {u \in VisibleUsers(us) : BagIn(<<u, fid>>, b)}

\* mutant: GetByID that also finds soft-deleted rows (Unscoped)
UserGetByIDUnscoped(us, id) == IF id \in DOMAIN us THEN id ELSE 0

\* userRepository.GetByID: 0 for ErrRecordNotFound
UserGetByID(us, id) == IF id \in VisibleUsers(us) THEN id ELSE 0

\* mutant: GetByEmail that never finds a row
UserGetByEmailNotFound(us, email) == 0

\* userRepository.GetByEmail: 0 for ErrRecordNotFound
UserGetByEmail(us, email) ==
    LET hit == {i \in VisibleUsers(us) : us[i].email = email}
    IN IF hit = {} THEN 0 ELSE CHOOSE i \in hit : \A j \in hit : i <= j

\* featureFlagRepository.GetByID
FlagGetByID(fs, id) == IF id \in VisibleFlags(fs) THEN id ELSE 0

\* featureFlagRepository.GetByKey
FlagGetByKey(fs, key) ==
    LET hit == {i \in VisibleFlags(fs) : fs[i].key = key}
    IN IF hit = {} THEN 0 ELSE CHOOSE i \in hit : \A j \in hit : i <= j

\* userFeatureFlagRepository.AssignFeatureFlagToUser: INSERT, TRUE when it is accepted
AssignAccepted(us, fs, b, uid, fid) ==
    PairFree(b, uid, fid) /\ PairReferenced(us, fs, uid, fid)

\* mutant: the DELETE without its feature_flag_id condition
UnassignRowsOfUser(b, uid, fid) ==
    [x \in {y \in DOMAIN b : y[1] /= uid} |-> b[x]]

\* mutant: the DELETE without its user_id condition
UnassignRowsOfFlag(b, uid, fid) ==
    [x \in {y \in BagToSet(b) : y[2] /= fid} |-> CopiesIn(x, b)]

\* userFeatureFlagRepository.UnassignFeatureFlagFromUser: DELETE ... WHERE user_id, feature_flag_id
UnassignRows(b, uid, fid) ==
    [x \in (DOMAIN b) \ {<<uid, fid>>} |-> b[x]]

\* userRepository.Delete / featureFlagRepository.Delete:
\* UPDATE .. SET deleted_at = now WHERE id = ? AND deleted_at IS NULL
SoftDelete(tbl, id) ==
    IF id \in DOMAIN tbl /\ ~tbl[id].deleted
    THEN [tbl EXCEPT ![id].deleted = TRUE]
    ELSE tbl

\* rows the ON DELETE CASCADE of user_feature_flags removes for a soft delete:
\* none, the referenced row stays in its table
CascadeOnDelete(b, col, id) == b

\* Save's association pass for the preloaded User.FeatureFlags:
\* INSERT INTO user_feature_flags ... ON CONFLICT DO NOTHING
SaveAssociations(b, uid, ffs) ==
    b (+) [x \in {<<uid, f>> : f \in {g \in ffs : ~BagIn(<<uid, g>>, b)}} |-> 1]

\* ------------------------------------------------------------ pagination
\* Go's int, modelled IntBits wide: the value an arithmetic result wraps to
IntBits == 16
MinInt == -(2 ^ (IntBits - 1))
MaxInt == 2 ^ (IntBits - 1) - 1
WrapInt(x) == ((x - MinInt) % (2 ^ IntBits)) + MinInt

DefaultPage == 1
DefaultPageSize == 10
MaxPageSize == 100

\* PaginationParams.GetLimit: normalises p.PageSize in place and returns it
GetLimit(pg) ==
    LET size == IF pg.pageSize < 1 THEN DefaultPageSize
                ELSE IF pg.pageSize > MaxPageSize THEN MaxPageSize ELSE pg.pageSize
    IN [params |-> [page |-> pg.page, pageSize |-> size], value |-> size]

\* PaginationParams.GetOffset: normalises p.Page and p.PageSize in place and returns
\* (p.Page - 1) * p.PageSize
GetOffset(pg) ==
    LET page == IF pg.page < 1 THEN DefaultPage ELSE pg.page
        size == GetLimit(pg).value
    IN [params |-> [page |-> page, pageSize |-> size],
        value |-> WrapInt(WrapInt(page - 1) * size)]

\* Go's integer division and remainder truncate toward zero
GoDiv(a, b) ==
    LET q == (IF a < 0 THEN -a ELSE a) \div (IF b < 0 THEN -b ELSE b)
    IN IF (a < 0) = (b < 0) THEN q ELSE -q
GoMod(a, b) == a - b * GoDiv(a, b)

\* mutant: the page count without the page for the remainder
CalculateTotalPagesFloor(total, pageSize) ==
    IF pageSize = 0 THEN 0 ELSE GoDiv(total, pageSize)

\* dto.CalculateTotalPages
CalculateTotalPages(total, pageSize) ==
    IF pageSize = 0
    THEN 0
    ELSE LET pages == GoDiv(total, pageSize)
         IN IF GoMod(total, pageSize) > 0 THEN WrapInt(pages + 1) ELSE pages

\* the orders in which a query without ORDER BY can return the rows `ids`
Orderings(ids) ==
    {o \in [1..Cardinality(ids) -> ids] : \A i, j \in DOMAIN o : i /= j => o[i] /= o[j]}

\* LIMIT limit OFFSET offset of the rows in order o; gorm writes the LIMIT clause for a
\* limit >= 0 and the OFFSET clause for an offset > 0
LimitOffset(o, limit, offset) ==
    LET skip == IF offset > 0 THEN offset ELSE 0
        rest == IF Len(o) > skip THEN Len(o) - skip ELSE 0
        n == IF limit >= 0 /\ limit < rest THEN limit ELSE rest
    IN [i \in 1..n |-> o[skip + i]]

\* -------------------------------------------------- request bookkeeping
Idle(p) == pc[p] = "idle"
Done(p) == pc[p] = "done"
Tables == [users |-> users, flags |-> flags, ufs |-> ufs]

\* the handler calls the service method with request r
Begin(p, r) ==
    /\ Idle(p)
    /\ req' = [req EXCEPT ![p] = r]
    /\ pre' = [pre EXCEPT ![p] = Tables]

\* the service method returns r
Return(p, r) ==
    /\ pc' = [pc EXCEPT ![p] = "done"]
    /\ loc' = [loc EXCEPT ![p] = NoLoc]
    /\ res' = [res EXCEPT ![p] = r]

\* the service method goes on to the store call `next` with locals l
Continue(p, next, l) ==
    /\ pc' = [pc EXCEPT ![p] = next]
    /\ loc' = [loc EXCEPT ![p] = l]
    /\ res' = [res EXCEPT ![p] = NoRes]

Failed(e) == [err |-> e]
Succeeded == [err |-> OK]
\* mutant: a response built from the request's enabled value run through the column default
UserResponseDefaulted(id, name, email, enabled) ==
    [err |-> OK, id |-> id, name |-> name, email |-> email,
     enabled |-> UserEnabledDefault(enabled)]

UserResponse(id, name, email, enabled) ==
    [err |-> OK, id |-> id, name |-> name, email |-> email, enabled |-> enabled]
FlagResponse(id, key, description, enabled) ==
    [err |-> OK, id |-> id, key |-> key, description |-> description, enabled |-> enabled]

\* inserts still to come from requests that passed their uniqueness check
PendingUserCreates == Cardinality({q \in Procs : pc[q] = "CreateUser.Create"})
PendingFlagCreates == Cardinality({q \in Procs : pc[q] = "CreateFeatureFlag.Create"})

\* ------------------------------------------------------------ userService
\* CreateUser: s.userRepo.GetByEmail
CreateUserGetByEmail(p, name, email, enabled) ==
    /\ Begin(p, [op |-> "CreateUser", name |-> name, email |-> email, enabled |-> enabled])
    /\ UserGetByEmail(users, email) /= 0 \/ userSeq + PendingUserCreates < MaxUsers
    /\ IF UserGetByEmail(users, email) /= 0
       THEN Return(p, Failed(ErrEmailExists))
       ELSE Continue(p, "CreateUser.Create", NoLoc)
    /\ UNCHANGED store

\* CreateUser: s.userRepo.Create
CreateUserCreate(p) ==
    /\ pc[p] = "CreateUser.Create"
    /\ LET id == userSeq + 1
           r == req[p]
           enabled == UserEnabledDefault(r.enabled)
       IN /\ userSeq' = id
          /\ IF EmailFree(users, id, r.email)
             THEN /\ users' = users @@ (id :> [name |-> r.name, email |-> r.email,
                                              enabled |-> enabled, deleted |-> FALSE])
                  /\ Return(p, UserResponse(id, r.name, r.email, enabled))
             ELSE /\ users' = users
                  /\ Return(p, Failed(ErrCreateUser))
    /\ UNCHANGED <<flags, flagSeq, ufs, req, pre>>

\* UpdateUser: s.userRepo.GetByID (Preload FeatureFlags), then the fields set before
\* the next store call
UpdateUserGetByID(p, id, name, email, enabled) ==
    /\ Begin(p, [op |-> "UpdateUser", id |-> id, name |-> name, email |-> email, enabled |-> enabled])
    /\ IF UserGetByID(users, id) = 0
       THEN Return(p, Failed(ErrUserNotFound))
       ELSE LET u == users[id]
                l == [at |-> "user", id |-> id,
                      name |-> IF name /= Absent THEN name[1] ELSE u.name,
                      email |-> u.email,
                      enabled |-> u.enabled,
                      ffs |-> RepoGetUserFeatureFlags(flags, ufs, id)]
            IN IF email /= Absent
               THEN Continue(p, "UpdateUser.GetByEmail", l)
               ELSE Continue(p, "UpdateUser.Update",
                             [l EXCEPT !.enabled =
                                 IF enabled /= Absent THEN enabled[1] ELSE u.enabled])
    /\ UNCHANGED store

\* mutant: the email check without its existingUser.ID != id condition
UpdateUserGetByEmailAnyHolder(p) ==
    /\ pc[p] = "UpdateUser.GetByEmail"
    /\ LET r == req[p]
           l == loc[p]
           existing == UserGetByEmail(users, r.email[1])
       IN IF existing /= 0
          THEN Return(p, Failed(ErrEmailExists))
          ELSE Continue(p, "UpdateUser.Update",
                        [l EXCEPT !.email = r.email[1],
                                  !.enabled = IF r.enabled /= Absent
                                              THEN r.enabled[1] ELSE l.enabled])
    /\ UNCHANGED <<store, req, pre>>

\* UpdateUser: s.userRepo.GetByEmail
UpdateUserGetByEmail(p) ==
    /\ pc[p] = "UpdateUser.GetByEmail"
    /\ LET r == req[p]
           l == loc[p]
           existing == UserGetByEmail(users, r.email[1])
       IN IF existing /= 0 /\ existing /= r.id
          THEN Return(p, Failed(ErrEmailExists))
          ELSE Continue(p, "UpdateUser.Update",
                        [l EXCEPT !.email = r.email[1],
                                  !.enabled = IF r.enabled /= Absent
                                              THEN r.enabled[1] ELSE l.enabled])
    /\ UNCHANGED <<store, req, pre>>

\* UpdateUser: s.userRepo.Update, Save's UPDATE ... WHERE id = ? AND deleted_at IS NULL
\* with its association pass; no row matched sends Save on to its upsert
UpdateUserUpdate(p) ==
    /\ pc[p] = "UpdateUser.Update"
    /\ LET l == loc[p]
       IN IF l.id \in VisibleUsers(users)
          THEN IF EmailFree(users, l.id, l.email)
               THEN /\ users' = [users EXCEPT ![l.id] =
                                    [name |-> l.name, email |-> l.email,
                                     enabled |-> l.enabled, deleted |-> FALSE]]
                    /\ ufs' = SaveAssociations(ufs, l.id, l.ffs)
                    /\ Return(p, UserResponse(l.id, l.name, l.email, l.enabled))
               ELSE /\ UNCHANGED <<users, ufs>>
                    /\ Return(p, Failed(ErrUpdateUser))
          ELSE /\ users' = users
               /\ ufs' = SaveAssociations(ufs, l.id, l.ffs)
               /\ Continue(p, "UpdateUser.Upsert", l)
    /\ UNCHANGED <<userSeq, flags, flagSeq, req, pre>>

\* UpdateUser: Save's INSERT ... ON CONFLICT (id) DO UPDATE SET every column
UpdateUserUpsert(p) ==
    /\ pc[p] = "UpdateUser.Upsert"
    /\ LET l == loc[p]
           enabled == UserEnabledDefault(l.enabled)
       IN IF EmailFree(users, l.id, l.email)
          THEN /\ users' = (l.id :> [name |-> l.name, email |-> l.email,
                                     enabled |-> enabled, deleted |-> FALSE]) @@ users
               /\ ufs' = SaveAssociations(ufs, l.id, l.ffs)
               /\ Return(p, UserResponse(l.id, l.name, l.email, enabled))
          ELSE /\ UNCHANGED <<users, ufs>>
               /\ Return(p, Failed(ErrUpdateUser))
    /\ UNCHANGED <<userSeq, flags, flagSeq, req, pre>>

\* DeleteUser: s.userRepo.GetByID
DeleteUserGetByID(p, id) ==
    /\ Begin(p, [op |-> "DeleteUser", id |-> id])
    /\ IF UserGetByID(users, id) = 0
       THEN Return(p, Failed(ErrUserNotFound))
       ELSE Continue(p, "DeleteUser.Delete", NoLoc)
    /\ UNCHANGED store

\* DeleteUser: s.userRepo.Delete
DeleteUserDelete(p) ==
    /\ pc[p] = "DeleteUser.Delete"
    /\ users' = SoftDelete(users, req[p].id)
    /\ ufs' = CascadeOnDelete(ufs, 1, req[p].id)
    /\ Return(p, Succeeded)
    /\ UNCHANGED <<userSeq, flags, flagSeq, req, pre>>

\* mutant: the user looked up among the soft-deleted rows too
AssignGetByIDUnscoped(p, uid, key) ==
    /\ Begin(p, [op |-> "Assign", id |-> uid, key |-> key])
    /\ IF UserGetByIDUnscoped(users, uid) = 0
       THEN Return(p, Failed(ErrUserNotFound))
       ELSE Continue(p, "Assign.GetByKey", NoLoc)
    /\ UNCHANGED store

\* AssignFeatureFlagToUser: s.userRepo.GetByID
AssignGetByID(p, uid, key) ==
    /\ Begin(p, [op |-> "Assign", id |-> uid, key |-> key])
    /\ IF UserGetByID(users, uid) = 0
       THEN Return(p, Failed(ErrUserNotFound))
       ELSE Continue(p, "Assign.GetByKey", NoLoc)
    /\ UNCHANGED store

\* AssignFeatureFlagToUser: s.featureFlagRepo.GetByKey
AssignGetByKey(p) ==
    /\ pc[p] = "Assign.GetByKey"
    /\ LET fid == FlagGetByKey(flags, req[p].key)
       IN IF fid = 0
          THEN Return(p, Failed(ErrFlagNotFound))
          ELSE Continue(p, "Assign.IsAssigned", [at |-> "flag", fid |-> fid])
    /\ UNCHANGED <<store, req, pre>>

\* AssignFeatureFlagToUser: s.userFFRepo.IsFeatureFlagAssignedToUser
AssignIsAssigned(p) ==
    /\ pc[p] = "Assign.IsAssigned"
    /\ IF IsFeatureFlagAssignedToUser(ufs, req[p].id, loc[p].fid)
       THEN Return(p, Failed(ErrAlreadyAssigned))
       ELSE Continue(p, "Assign.Assign", loc[p])
    /\ UNCHANGED <<store, req, pre>>

\* AssignFeatureFlagToUser: s.userFFRepo.AssignFeatureFlagToUser
AssignAssign(p) ==
    /\ pc[p] = "Assign.Assign"
    /\ LET uid == req[p].id
           fid == loc[p].fid
       IN IF AssignAccepted(users, flags, ufs, uid, fid)
          THEN /\ ufs' = ufs (+) SetToBag({<<uid, fid>>})
               /\ Return(p, Succeeded)
          ELSE /\ ufs' = ufs
               /\ Return(p, Failed(ErrAssign))
    /\ UNCHANGED <<users, userSeq, flags, flagSeq, req, pre>>

\* mutant: the user looked up among the soft-deleted rows too
UnassignGetByIDUnscoped(p, uid, key) ==
    /\ Begin(p, [op |-> "Unassign", id |-> uid, key |-> key])
    /\ IF UserGetByIDUnscoped(users, uid) = 0
       THEN Return(p, Failed(ErrUserNotFound))
       ELSE Continue(p, "Unassign.GetByKey", NoLoc)
    /\ UNCHANGED store

\* UnassignFeatureFlagFromUser: s.userRepo.GetByID
UnassignGetByID(p, uid, key) ==
    /\ Begin(p, [op |-> "Unassign", id |-> uid, key |-> key])
    /\ IF UserGetByID(users, uid) = 0
       THEN Return(p, Failed(ErrUserNotFound))
       ELSE Continue(p, "Unassign.GetByKey", NoLoc)
    /\ UNCHANGED store

\* UnassignFeatureFlagFromUser: s.featureFlagRepo.GetByKey
UnassignGetByKey(p) ==
    /\ pc[p] = "Unassign.GetByKey"
    /\ LET fid == FlagGetByKey(flags, req[p].key)
       IN IF fid = 0
          THEN Return(p, Failed(ErrFlagNotFound))
          ELSE Continue(p, "Unassign.Unassign", [at |-> "flag", fid |-> fid])
    /\ UNCHANGED <<store, req, pre>>

\* UnassignFeatureFlagFromUser: s.userFFRepo.UnassignFeatureFlagFromUser
UnassignUnassign(p) ==
    /\ pc[p] = "Unassign.Unassign"
    /\ ufs' = UnassignRows(ufs, req[p].id, loc[p].fid)
    /\ Return(p, Succeeded)
    /\ UNCHANGED <<users, userSeq, flags, flagSeq, req, pre>>

\* GetUser: s.userRepo.GetByID
GetUserGetByID(p, id) ==
    /\ Begin(p, [op |-> "GetUser", id |-> id])
    /\ IF UserGetByID(users, id) = 0
       THEN Return(p, Failed(ErrUserNotFound))
       ELSE Return(p, UserResponse(id, users[id].name, users[id].email, users[id].enabled))
    /\ UNCHANGED store

\* GetUsers: pagination.GetLimit(), pagination.GetOffset(), then GetAll's count query
GetUsersCount(p, page, pageSize) ==
    /\ Begin(p, [op |-> "GetUsers", page |-> page, pageSize |-> pageSize])
    /\ LET limit == GetLimit([page |-> page, pageSize |-> pageSize])
           offset == GetOffset(limit.params)
       IN Continue(p, "GetUsers.Find",
                   [at |-> "page", params |-> offset.params, limit |-> limit.value,
                    offset |-> offset.value, total |-> Cardinality(VisibleUsers(users))])
    /\ UNCHANGED store

\* GetUsers: GetAll's Limit(limit).Offset(offset).Find, then the list response
GetUsersFind(p) ==
    /\ pc[p] = "GetUsers.Find"
    /\ \E o \in Orderings(VisibleUsers(users)) :
          LET l == loc[p]
              rows == LimitOffset(o, l.limit, l.offset)
          IN Return(p, [err |-> OK,
                        users |-> [i \in DOMAIN rows |->
                                      [id |-> rows[i], name |-> users[rows[i]].name,
                                       email |-> users[rows[i]].email,
                                       enabled |-> users[rows[i]].enabled]],
                        total |-> l.total,
                        page |-> l.params.page,
                        pageSize |-> l.params.pageSize,
                        totalPages |-> CalculateTotalPages(l.total, l.params.pageSize)])
    /\ UNCHANGED <<store, req, pre>>

\* GetUserFeatureFlags: s.userRepo.GetByID
GetUserFeatureFlagsGetByID(p, id) ==
    /\ Begin(p, [op |-> "GetUserFeatureFlags", id |-> id])
    /\ IF UserGetByID(users, id) = 0
       THEN Return(p, Failed(ErrUserNotFound))
       ELSE Continue(p, "GetUserFeatureFlags.Query", NoLoc)
    /\ UNCHANGED store

\* GetUserFeatureFlags: s.userFFRepo.GetUserFeatureFlags, then the responses; the rows
\* come in no stated order and are kept as a set, with the length of the slice
GetUserFeatureFlagsQuery(p) ==
    /\ pc[p] = "GetUserFeatureFlags.Query"
    /\ Return(p, [err |-> OK,
                  flags |-> {[id |-> f, key |-> flags[f].key,
                              description |-> flags[f].description,
                              enabled |-> flags[f].enabled] :
                                 f \in RepoGetUserFeatureFlags(flags, ufs, req[p].id)},
                  len |-> RepoGetUserFeatureFlagsLen(flags, ufs, req[p].id)])
    /\ UNCHANGED <<store, req, pre>>

\* ----------------------------------------------------- featureFlagService
\* CreateFeatureFlag: s.featureFlagRepo.GetByKey
CreateFeatureFlagGetByKey(p, key, description, enabled) ==
    /\ Begin(p, [op |-> "CreateFeatureFlag", key |-> key, description |-> description, enabled |-> enabled])
    /\ FlagGetByKey(flags, key) /= 0 \/ flagSeq + PendingFlagCreates < MaxFlags
    /\ IF FlagGetByKey(flags, key) /= 0
       THEN Return(p, Failed(ErrKeyExists))
       ELSE Continue(p, "CreateFeatureFlag.Create", NoLoc)
    /\ UNCHANGED store

\* CreateFeatureFlag: s.featureFlagRepo.Create
CreateFeatureFlagCreate(p) ==
    /\ pc[p] = "CreateFeatureFlag.Create"
    /\ LET id == flagSeq + 1
           r == req[p]
           enabled == FlagEnabledDefault(r.enabled)
       IN /\ flagSeq' = id
          /\ IF KeyFree(flags, id, r.key)
             THEN /\ flags' = flags @@ (id :> [key |-> r.key, description |-> r.description,
                                              enabled |-> enabled, deleted |-> FALSE])
                  /\ Return(p, FlagResponse(id, r.key, r.description, enabled))
             ELSE /\ flags' = flags
                  /\ Return(p, Failed(ErrCreateFlag))
    /\ UNCHANGED <<users, userSeq, ufs, req, pre>>

\* UpdateFeatureFlag: s.featureFlagRepo.GetByID, then the fields set
UpdateFeatureFlagGetByID(p, id, description, enabled) ==
    /\ Begin(p, [op |-> "UpdateFeatureFlag", id |-> id, description |-> description, enabled |-> enabled])
    /\ IF FlagGetByID(flags, id) = 0
       THEN Return(p, Failed(ErrFlagNotFound))
       ELSE LET f == flags[id]
            IN Continue(p, "UpdateFeatureFlag.Update",
                        [at |-> "flag", id |-> id, key |-> f.key,
                         description |-> IF description /= Absent
                                         THEN description[1] ELSE f.description,
                         enabled |-> IF enabled /= Absent THEN enabled[1] ELSE f.enabled])
    /\ UNCHANGED store

\* mutant: Save writing the description into the key column
UpdateFeatureFlagUpdateRekeyed(p) ==
    /\ pc[p] = "UpdateFeatureFlag.Update"
    /\ LET l == loc[p]
       IN IF l.id \in VisibleFlags(flags)
          THEN /\ flags' = [flags EXCEPT ![l.id] =
                               [key |-> l.description, description |-> l.description,
                                enabled |-> l.enabled, deleted |-> FALSE]]
               /\ Return(p, FlagResponse(l.id, l.description, l.description, l.enabled))
          ELSE /\ flags' = flags
               /\ Continue(p, "UpdateFeatureFlag.Upsert", l)
    /\ UNCHANGED <<users, userSeq, flagSeq, ufs, req, pre>>

\* UpdateFeatureFlag: s.featureFlagRepo.Update, Save's UPDATE ... WHERE id = ? AND
\* deleted_at IS NULL; no row matched sends Save on to its upsert
UpdateFeatureFlagUpdate(p) ==
    /\ pc[p] = "UpdateFeatureFlag.Update"
    /\ LET l == loc[p]
       IN IF l.id \in VisibleFlags(flags)
          THEN IF KeyFree(flags, l.id, l.key)
               THEN /\ flags' = [flags EXCEPT ![l.id] =
                                    [key |-> l.key, description |-> l.description,
                                     enabled |-> l.enabled, deleted |-> FALSE]]
                    /\ Return(p, FlagResponse(l.id, l.key, l.description, l.enabled))
               ELSE /\ flags' = flags
                    /\ Return(p, Failed(ErrUpdateFlag))
          ELSE /\ flags' = flags
               /\ Continue(p, "UpdateFeatureFlag.Upsert", l)
    /\ UNCHANGED <<users, userSeq, flagSeq, ufs, req, pre>>

\* UpdateFeatureFlag: Save's INSERT ... ON CONFLICT (id) DO UPDATE SET every column
UpdateFeatureFlagUpsert(p) ==
    /\ pc[p] = "UpdateFeatureFlag.Upsert"
    /\ LET l == loc[p]
           enabled == FlagEnabledDefault(l.enabled)
       IN IF KeyFree(flags, l.id, l.key)
          THEN /\ flags' = (l.id :> [key |-> l.key, description |-> l.description,
                                     enabled |-> enabled, deleted |-> FALSE]) @@ flags
               /\ Return(p, FlagResponse(l.id, l.key, l.description, enabled))
          ELSE /\ flags' = flags
               /\ Return(p, Failed(ErrUpdateFlag))
    /\ UNCHANGED <<users, userSeq, flagSeq, ufs, req, pre>>

\* DeleteFeatureFlag: s.featureFlagRepo.GetByID
DeleteFeatureFlagGetByID(p, id) ==
    /\ Begin(p, [op |-> "DeleteFeatureFlag", id |-> id])
    /\ IF FlagGetByID(flags, id) = 0
       THEN Return(p, Failed(ErrFlagNotFound))
       ELSE Continue(p, "DeleteFeatureFlag.Delete", NoLoc)
    /\ UNCHANGED store

\* DeleteFeatureFlag: s.featureFlagRepo.Delete
DeleteFeatureFlagDelete(p) ==
    /\ pc[p] = "DeleteFeatureFlag.Delete"
    /\ flags' = SoftDelete(flags, req[p].id)
    /\ ufs' = CascadeOnDelete(ufs, 2, req[p].id)
    /\ Return(p, Succeeded)
    /\ UNCHANGED <<users, userSeq, flagSeq, req, pre>>

\* GetFeatureFlags: pagination.GetLimit(), pagination.GetOffset(), then GetAll's count query
GetFeatureFlagsCount(p, page, pageSize) ==
    /\ Begin(p, [op |-> "GetFeatureFlags", page |-> page, pageSize |-> pageSize])
    /\ LET limit == GetLimit([page |-> page, pageSize |-> pageSize])
           offset == GetOffset(limit.params)
       IN Continue(p, "GetFeatureFlags.Find",
                   [at |-> "page", params |-> offset.params, limit |-> limit.value,
                    offset |-> offset.value, total |-> Cardinality(VisibleFlags(flags))])
    /\ UNCHANGED store

\* GetFeatureFlags: GetAll's Limit(limit).Offset(offset).Find, then the list response
GetFeatureFlagsFind(p) ==
    /\ pc[p] = "GetFeatureFlags.Find"
    /\ \E o \in Orderings(VisibleFlags(flags)) :
          LET l == loc[p]
              rows == LimitOffset(o, l.limit, l.offset)
          IN Return(p, [err |-> OK,
                        flags |-> [i \in DOMAIN rows |->
                                      [id |-> rows[i], key |-> flags[rows[i]].key,
                                       description |-> flags[rows[i]].description,
                                       enabled |-> flags[rows[i]].enabled]],
                        total |-> l.total,
                        page |-> l.params.page,
                        pageSize |-> l.params.pageSize,
                        totalPages |-> CalculateTotalPages(l.total, l.params.pageSize)])
    /\ UNCHANGED <<store, req, pre>>

\* dto.CalculateTotalPages called with the arguments of the request
CalculateTotalPagesCall(p) ==
    /\ pc[p] = "CalculateTotalPages"
    /\ Return(p, [err |-> OK, pages |-> CalculateTotalPages(req[p].total, req[p].pageSize)])
    /\ UNCHANGED <<store, req, pre>>

\* ------------------------------------------------------------ store faults
\* a store call returning an error that is not gorm.ErrRecordNotFound (a lost connection,
\* a cancelled context); pre remembers for the request which call it was
BeginFailing(p, r, call) ==
    /\ Idle(p)
    /\ req' = [req EXCEPT ![p] = r]
    /\ pre' = [pre EXCEPT ![p] = [failed |-> call] @@ Tables]

Failing(p, call) ==
    pre' = [pre EXCEPT ![p] = @ @@ [failed |-> call]]

\* CreateUser: s.userRepo.GetByEmail fails; err != nil skips the only return
CreateUserGetByEmailFails(p, name, email, enabled) ==
    /\ BeginFailing(p, [op |-> "CreateUser", name |-> name, email |-> email, enabled |-> enabled],
                    "GetByEmail")
    /\ userSeq + PendingUserCreates < MaxUsers
    /\ Continue(p, "CreateUser.Create", NoLoc)
    /\ UNCHANGED store

\* CreateUser: s.userRepo.Create fails
CreateUserCreateFails(p) ==
    /\ pc[p] = "CreateUser.Create"
    /\ Failing(p, "Create")
    /\ Return(p, Failed(ErrCreateUser))
    /\ UNCHANGED <<store, req>>

\* UpdateUser: s.userRepo.GetByID fails
UpdateUserGetByIDFails(p, id, name, email, enabled) ==
    /\ BeginFailing(p, [op |-> "UpdateUser", id |-> id, name |-> name, email |-> email,
                        enabled |-> enabled], "GetByID")
    /\ Return(p, Failed(ErrGetUser))
    /\ UNCHANGED store

\* UpdateUser: s.userRepo.GetByEmail fails; err != nil skips the only return
UpdateUserGetByEmailFails(p) ==
    /\ pc[p] = "UpdateUser.GetByEmail"
    /\ Failing(p, "GetByEmail")
    /\ LET r == req[p]
           l == loc[p]
       IN Continue(p, "UpdateUser.Update",
                   [l EXCEPT !.email = r.email[1],
                             !.enabled = IF r.enabled /= Absent
                                         THEN r.enabled[1] ELSE l.enabled])
    /\ UNCHANGED <<store, req>>

\* UpdateUser: s.userRepo.Update fails
UpdateUserUpdateFails(p) ==
    /\ pc[p] = "UpdateUser.Update"
    /\ Failing(p, "Update")
    /\ Return(p, Failed(ErrUpdateUser))
    /\ UNCHANGED <<store, req>>

\* CreateFeatureFlag: s.featureFlagRepo.GetByKey fails; err != nil skips the only return
CreateFeatureFlagGetByKeyFails(p, key, description, enabled) ==
    /\ BeginFailing(p, [op |-> "CreateFeatureFlag", key |-> key, description |-> description,
                        enabled |-> enabled], "GetByKey")
    /\ flagSeq + PendingFlagCreates < MaxFlags
    /\ Continue(p, "CreateFeatureFlag.Create", NoLoc)
    /\ UNCHANGED store

\* CreateFeatureFlag: s.featureFlagRepo.Create fails
CreateFeatureFlagCreateFails(p) ==
    /\ pc[p] = "CreateFeatureFlag.Create"
    /\ Failing(p, "Create")
    /\ Return(p, Failed(ErrCreateFlag))
    /\ UNCHANGED <<store, req>>

\* -------------------------------------------------------------- handlers
\* the handler writes the response and the goroutine is free for the next request
Respond(p) ==
    /\ Done(p)
    /\ pc' = [pc EXCEPT ![p] = "idle"]
    /\ req' = [req EXCEPT ![p] = NoReq]
    /\ res' = [res EXCEPT ![p] = NoRes]
    /\ pre' = [pre EXCEPT ![p] = NoPre]
    /\ UNCHANGED <<store, loc>>

\* the handlers' HTTP responses: the status and the error code written for what the
\* service returned
StatusOK == 200
StatusCreated == 201
StatusNotFound == 404
StatusInternalServerError == 500

\* mutant: every domain error answered 404
JSONAllNotFound(err, notFound, failed, success) ==
    IF err \in notFound \cup {ErrEmailExists, ErrKeyExists, ErrAlreadyAssigned}
    THEN [status |-> StatusNotFound, error |-> "not_found"]
    ELSE IF err /= OK
         THEN [status |-> StatusInternalServerError, error |-> failed]
         ELSE [status |-> success, error |-> "none"]

\* if err != nil { if err.Error() == ... { 404 }; 500 }; c.JSON(success, ...)
JSON(err, notFound, failed, success) ==
    IF err \in notFound
    THEN [status |-> StatusNotFound, error |-> "not_found"]
    ELSE IF err /= OK
         THEN [status |-> StatusInternalServerError, error |-> failed]
         ELSE [status |-> success, error |-> "none"]

\* the handler of each operation
HandlerJSON(op, err) ==
    CASE op = "CreateUser" -> JSON(err, {}, "creation_failed", StatusCreated)
      [] op = "GetUser" -> JSON(err, {ErrUserNotFound}, "retrieval_failed", StatusOK)
      [] op = "GetUsers" -> JSON(err, {}, "retrieval_failed", StatusOK)
      [] op = "UpdateUser" -> JSON(err, {ErrUserNotFound}, "update_failed", StatusOK)
      [] op = "DeleteUser" -> JSON(err, {ErrUserNotFound}, "deletion_failed", StatusOK)
      [] op = "GetUserFeatureFlags" ->
             JSON(err, {ErrUserNotFound}, "retrieval_failed", StatusOK)
      [] op = "Assign" ->
             JSON(err, {ErrUserNotFound, ErrFlagNotFound}, "assignment_failed", StatusOK)
      [] op = "Unassign" ->
             JSON(err, {ErrUserNotFound, ErrFlagNotFound}, "unassignment_failed", StatusOK)
      [] op = "CreateFeatureFlag" -> JSON(err, {}, "creation_failed", StatusCreated)
      [] op = "GetFeatureFlags" -> JSON(err, {}, "retrieval_failed", StatusOK)
      [] op = "UpdateFeatureFlag" -> JSON(err, {ErrFlagNotFound}, "update_failed", StatusOK)
      [] op = "DeleteFeatureFlag" -> JSON(err, {ErrFlagNotFound}, "deletion_failed", StatusOK)

\* the handler writes the response for what the service returned
HandlerJSONWrite(p) ==
    /\ Done(p)
    /\ pc' = [pc EXCEPT ![p] = "written"]
    /\ res' = [res EXCEPT ![p] = [err |-> res[p].err, http |-> HandlerJSON(req[p].op, res[p].err)]]
    /\ UNCHANGED <<store, req, loc, pre>>

\* ------------------------------------------------------------ the system
Init ==
    /\ users = <<>>
    /\ userSeq = 0
    /\ flags = <<>>
    /\ flagSeq = 0
    /\ ufs = EmptyBag
    /\ pc = [p \in Procs |-> "idle"]
    /\ req = [p \in Procs |-> NoReq]
    /\ loc = [p \in Procs |-> NoLoc]
    /\ res = [p \in Procs |-> NoRes]
    /\ pre = [p \in Procs |-> NoPre]

\* the requests of one goroutine, operation by operation, inputs drawn from the sets given
CreateUser(p, names, emails, bools) ==
    \/ \E n \in names, e \in emails, b \in bools : CreateUserGetByEmail(p, n, e, b)
    \/ CreateUserCreate(p)

UpdateUser(p, names, emails, bools) ==
    \/ \E i \in UserIds, n \in names, e \in emails, b \in bools :
          UpdateUserGetByID(p, i, n, e, b)
    \/ UpdateUserGetByEmail(p)
    \/ UpdateUserUpdate(p)
    \/ UpdateUserUpsert(p)

DeleteUser(p) ==
    \/ \E i \in UserIds : DeleteUserGetByID(p, i)
    \/ DeleteUserDelete(p)

AssignFeatureFlagToUser(p, keys) ==
    \/ \E i \in UserIds, k \in keys : AssignGetByID(p, i, k)
    \/ AssignGetByKey(p)
    \/ AssignIsAssigned(p)
    \/ AssignAssign(p)

UnassignFeatureFlagFromUser(p, keys) ==
    \/ \E i \in UserIds, k \in keys : UnassignGetByID(p, i, k)
    \/ UnassignGetByKey(p)
    \/ UnassignUnassign(p)

CreateFeatureFlag(p, keys, descriptions, bools) ==
    \/ \E k \in keys, d \in descriptions, b \in bools :
          CreateFeatureFlagGetByKey(p, k, d, b)
    \/ CreateFeatureFlagCreate(p)

UpdateFeatureFlag(p, descriptions, bools) ==
    \/ \E i \in FlagIds, d \in descriptions, b \in bools :
          UpdateFeatureFlagGetByID(p, i, d, b)
    \/ UpdateFeatureFlagUpdate(p)
    \/ UpdateFeatureFlagUpsert(p)

DeleteFeatureFlag(p) ==
    \/ \E i \in FlagIds : DeleteFeatureFlagGetByID(p, i)
    \/ DeleteFeatureFlagDelete(p)

GetUser(p) ==
    \E i \in UserIds : GetUserGetByID(p, i)

GetUsers(p, pages, pageSizes) ==
    \/ \E page \in pages, pageSize \in pageSizes : GetUsersCount(p, page, pageSize)
    \/ GetUsersFind(p)

GetUserFeatureFlags(p) ==
    \/ \E i \in UserIds : GetUserFeatureFlagsGetByID(p, i)
    \/ GetUserFeatureFlagsQuery(p)

GetFeatureFlags(p, pages, pageSizes) ==
    \/ \E page \in pages, pageSize \in pageSizes : GetFeatureFlagsCount(p, page, pageSize)
    \/ GetFeatureFlagsFind(p)

\* the same requests against a store whose calls can fail
CreateUserFailing(p, names, emails, bools) ==
    \/ \E n \in names, e \in emails, b \in bools : CreateUserGetByEmailFails(p, n, e, b)
    \/ CreateUserCreateFails(p)

UpdateUserFailing(p, names, emails, bools) ==
    \/ \E i \in UserIds, n \in names, e \in emails, b \in bools :
          UpdateUserGetByIDFails(p, i, n, e, b)
    \/ UpdateUserGetByEmailFails(p)
    \/ UpdateUserUpdateFails(p)

CreateFeatureFlagFailing(p, keys, descriptions, bools) ==
    \/ \E k \in keys, d \in descriptions, b \in bools :
          CreateFeatureFlagGetByKeyFails(p, k, d, b)
    \/ CreateFeatureFlagCreateFails(p)

\* one client issuing create, delete, assign and unassign requests one after another
NextAssignSeq ==
    \/ CreateUser("p1", {"n1"}, Emails, {TRUE})
    \/ DeleteUser("p1")
    \/ CreateFeatureFlag("p1", Keys, {"d1"}, {FALSE})
    \/ DeleteFeatureFlag("p1")
    \/ AssignFeatureFlagToUser("p1", Keys)
    \/ UnassignFeatureFlagFromUser("p1", Keys)
    \/ Respond("p1")

SpecAssignSeq == Init /\ [][NextAssignSeq]_vars

\* one client creating, deleting and assigning, and reading a user's feature flags
NextFlagsReadSeq ==
    \/ CreateUser("p1", {"n1"}, Emails, {TRUE})
    \/ DeleteUser("p1")
    \/ CreateFeatureFlag("p1", Keys, {"d1"}, {FALSE})
    \/ DeleteFeatureFlag("p1")
    \/ AssignFeatureFlagToUser("p1", Keys)
    \/ GetUserFeatureFlags("p1")
    \/ Respond("p1")

SpecFlagsReadSeq == Init /\ [][NextFlagsReadSeq]_vars

\* one client creating and deleting users and reading them back, one at a time and by page
NextUsersReadSeq ==
    \/ CreateUser("p1", {"n1"}, Emails, BOOLEAN)
    \/ DeleteUser("p1")
    \/ GetUser("p1")
    \/ GetUsers("p1", 0..3, 0..2)
    \/ Respond("p1")

SpecUsersReadSeq == Init /\ [][NextUsersReadSeq]_vars

\* the page and page_size values a list request is issued with: the ends of the int range,
\* the values around each threshold, and the smallest page whose offset leaves the range
PageInputs == {MinInt, -1, 0, 1, 2, 3, MaxInt \div MaxPageSize + 2, MaxInt}
PageSizeInputs == {MinInt, -1, 0, 1, 2, MaxPageSize, MaxPageSize + 1, MaxInt}

\* one client creating users and feature flags and listing them with any page and page size
NextPagination ==
    \/ CreateUser("p1", {"n1"}, Emails, {TRUE})
    \/ CreateFeatureFlag("p1", Keys, {"d1"}, {FALSE})
    \/ GetUsers("p1", PageInputs, PageSizeInputs)
    \/ GetFeatureFlags("p1", PageInputs, PageSizeInputs)
    \/ Respond("p1")

SpecPagination == Init /\ [][NextPagination]_vars

\* a call of CalculateTotalPages with any total and page size
InitTotalPages ==
    /\ users = <<>>
    /\ userSeq = 0
    /\ flags = <<>>
    /\ flagSeq = 0
    /\ ufs = EmptyBag
    /\ pc = [p \in Procs |-> IF p = "p1" THEN "CalculateTotalPages" ELSE "idle"]
    /\ \E total \in 0..MaxTotal, pageSize \in 0..MaxPageSizeArg :
          req = [p \in Procs |-> IF p = "p1"
                                 THEN [op |-> "CalculateTotalPages", total |-> total,
                                       pageSize |-> pageSize]
                                 ELSE NoReq]
    /\ loc = [p \in Procs |-> NoLoc]
    /\ res = [p \in Procs |-> NoRes]
    /\ pre = [p \in Procs |-> NoPre]

NextTotalPages == CalculateTotalPagesCall("p1")

SpecTotalPages == InitTotalPages /\ [][NextTotalPages]_vars

\* the tables as earlier requests can have left them: rows created with distinct emails
\* and keys, any of them soft-deleted since, and any pairs assigned before that
UserRow == [name : {"n1"}, email : Emails, enabled : {TRUE}, deleted : BOOLEAN]
FlagRow == [key : Keys, description : {"d1"}, enabled : {FALSE}, deleted : BOOLEAN]

UserTables ==
    UNION {{us \in [1..n -> UserRow] :
               \A i, j \in 1..n : i /= j => us[i].email /= us[j].email} : n \in 0..MaxUsers}

FlagTables ==
    UNION {{fs \in [1..n -> FlagRow] :
               \A i, j \in 1..n : i /= j => fs[i].key /= fs[j].key} : n \in 0..MaxFlags}

InitRace ==
    /\ users \in UserTables
    /\ userSeq = Cardinality(DOMAIN users)
    /\ flags \in FlagTables
    /\ flagSeq = Cardinality(DOMAIN flags)
    /\ ufs \in {SetToBag(s) : s \in SUBSET ((DOMAIN users) \X (DOMAIN flags))}
    /\ pc = [p \in Procs |-> "idle"]
    /\ req = [p \in Procs |-> NoReq]
    /\ loc = [p \in Procs |-> NoLoc]
    /\ res = [p \in Procs |-> NoRes]
    /\ pre = [p \in Procs |-> NoPre]

\* two clients, each issuing one assign request, their store calls interleaved
NextAssignRace ==
    \E p \in Procs : AssignFeatureFlagToUser(p, Keys)

SpecAssignRace == InitRace /\ [][NextAssignRace]_vars

\* two clients, each issuing one create, update or delete request, their store calls
\* interleaved
NextWriteRace ==
    \E p \in Procs :
        \/ CreateUser(p, {"n1"}, Emails, {TRUE})
        \/ UpdateUser(p, {Absent}, Optional(Emails), {Absent})
        \/ DeleteUser(p)
        \/ CreateFeatureFlag(p, Keys, {"d1"}, {FALSE})
        \/ UpdateFeatureFlag(p, {Some("d2")}, {Absent})
        \/ DeleteFeatureFlag(p)

SpecWriteRace == InitRace /\ [][NextWriteRace]_vars

\* a client deleting a user while another updates users and reads them back
NextDeleteRead ==
    \/ DeleteUser("p1")
    \/ UpdateUser("p2", {Absent}, Optional(Emails), {Absent})
    \/ GetUser("p2")
    \/ GetUsers("p2", {1}, {2})
    \/ Respond("p2")

SpecDeleteRead == InitRace /\ [][NextDeleteRead]_vars

\* a client updating a user with any partial payload while another deletes a user
NextUpdateRace ==
    \/ UpdateUser("p1", Optional(Names), Optional(Emails), Optional(BOOLEAN))
    \/ DeleteUser("p2")

SpecUpdateRace == InitRace /\ [][NextUpdateRace]_vars

\* a client creating a user with any payload and another reading users by id
NextCreateGet ==
    \/ CreateUser("p1", Names, Emails, BOOLEAN)
    \/ GetUser("p2")

SpecCreateGet == InitRace /\ [][NextCreateGet]_vars

\* two clients, each listing one page of the users
NextPages ==
    \E p \in Procs : GetUsers(p, 0..3, 0..2)

SpecPages == InitRace /\ [][NextPages]_vars

\* a client creating and updating against a store whose calls can fail, while another
\* deletes a user
NextStoreFault ==
    \/ CreateUser("p1", {"n1"}, Emails, {TRUE})
    \/ CreateUserFailing("p1", {"n1"}, Emails, {TRUE})
    \/ UpdateUser("p1", {Absent}, Optional(Emails), {Absent})
    \/ UpdateUserFailing("p1", {Absent}, Optional(Emails), {Absent})
    \/ CreateFeatureFlag("p1", Keys, {"d1"}, {FALSE})
    \/ CreateFeatureFlagFailing("p1", Keys, {"d1"}, {FALSE})
    \/ DeleteUser("p2")

SpecStoreFault == InitRace /\ [][NextStoreFault]_vars

\* a client creating feature flags and updating them with any partial payload, one request
\* after another, while another deletes a feature flag
NextFlagUpdate ==
    \/ CreateFeatureFlag("p1", Keys, {"d1"}, BOOLEAN)
    \/ UpdateFeatureFlag("p1", Optional(Descriptions), Optional(BOOLEAN))
    \/ Respond("p1")
    \/ DeleteFeatureFlag("p2")

SpecFlagUpdate == Init /\ [][NextFlagUpdate]_vars

\* a client renaming a user while another updates a user's email or enabled value, or
\* deletes a user
NextUpdatePair ==
    \/ UpdateUser("p1", {Some("n2")}, {Absent}, {Absent})
    \/ UpdateUser("p2", {Absent}, Optional(Emails), Optional({FALSE}))
    \/ DeleteUser("p2")

SpecUpdatePair == InitRace /\ [][NextUpdatePair]_vars

\* a client updating a user while another assigns or unassigns a feature flag, or deletes a
\* user
NextUpdateAssign ==
    \/ UpdateUser("p1", {Absent}, Optional(Emails), {Absent})
    \/ AssignFeatureFlagToUser("p2", Keys)
    \/ UnassignFeatureFlagFromUser("p2", Keys)
    \/ DeleteUser("p2")

SpecUpdateAssign == InitRace /\ [][NextUpdateAssign]_vars

\* a client issuing one request of any kind and reading the response, while another
\* deletes a user or a feature flag
NextHandlers ==
    \/ CreateUser("p1", {"n1"}, Emails, {TRUE})
    \/ UpdateUser("p1", {Absent}, Optional(Emails), {Absent})
    \/ DeleteUser("p1")
    \/ GetUser("p1")
    \/ GetUsers("p1", {1}, {2})
    \/ GetUserFeatureFlags("p1")
    \/ AssignFeatureFlagToUser("p1", Keys)
    \/ UnassignFeatureFlagFromUser("p1", Keys)
    \/ CreateFeatureFlag("p1", Keys, {"d1"}, {FALSE})
    \/ GetFeatureFlags("p1", {1}, {2})
    \/ UpdateFeatureFlag("p1", {Some("d2")}, {Absent})
    \/ DeleteFeatureFlag("p1")
    \/ HandlerJSONWrite("p1")
    \/ DeleteUser("p2")
    \/ DeleteFeatureFlag("p2")

SpecHandlers == InitRace /\ [][NextHandlers]_vars

\* ------------------------------------------------------------- the claims
\* what a finished request was about, read off its arguments and the tables it started from
IsDone(p, op) == Done(p) /\ req[p].op = op
Ok(p) == res[p].err = OK
Rows(b) == BagToSet(b)
Exists(tbl, id) == id \in DOMAIN tbl /\ ~tbl[id].deleted
Assigned(b, uid, fid) == <<uid, fid>> \in Rows(b)
EmailHeld(us, email) == \E i \in DOMAIN us : Exists(us, i) /\ us[i].email = email
KeyHeld(fs, key) == \E i \in DOMAIN fs : Exists(fs, i) /\ fs[i].key = key
\* the flag a key stands for: 0 when no existing flag has the key
FlagOf(fs, key) ==
    IF KeyHeld(fs, key) THEN CHOOSE i \in DOMAIN fs : Exists(fs, i) /\ fs[i].key = key ELSE 0
PreUser(p) == IF Exists(pre[p].users, req[p].id) THEN req[p].id ELSE 0
PreFlag(p) == FlagOf(pre[p].flags, req[p].key)

\* C1: every row of the assignment relation references a user and a feature flag
\* that both currently exist (are not deleted).
C1_AssignmentsReferenceExisting ==
    \A x \in Rows(ufs) : Exists(users, x[1]) /\ Exists(flags, x[2])

\* C2: after DeleteUser(u) returned success no assignment row has user id u, and after
\* DeleteFeatureFlag(f) returned success no assignment row has feature flag id f.
C2_DeleteRemovesAssignments ==
    \A p \in Procs :
        /\ IsDone(p, "DeleteUser") /\ Ok(p)
              => \A x \in Rows(ufs) : x[1] /= req[p].id
        /\ IsDone(p, "DeleteFeatureFlag") /\ Ok(p)
              => \A x \in Rows(ufs) : x[2] /= req[p].id

\* C3: when two Assign requests for the same existing user and flag key run from a state
\* where the pair is unassigned, exactly one returns success, the other returns the
\* already-assigned error or the store's constraint failure, and the pair is stored once.
C3_ConcurrentAssignOnce ==
    \A p, q \in Procs :
        /\ p /= q /\ IsDone(p, "Assign") /\ IsDone(q, "Assign")
        /\ req[p] = req[q]
        /\ PreUser(p) /= 0 /\ PreFlag(p) /= 0
        /\ ~Assigned(pre[p].ufs, req[p].id, PreFlag(p))
        => /\ Ok(p) /= Ok(q)
           /\ \A r \in {p, q} : ~Ok(r) => res[r].err \in {ErrAlreadyAssigned, ErrAssign}
           /\ CopiesIn(<<req[p].id, PreFlag(p)>>, ufs) = 1

\* C3 witness: both requests passed the assignment check and the store refused the second
C3_Witness ==
    \E p, q \in Procs :
        /\ p /= q /\ IsDone(p, "Assign") /\ IsDone(q, "Assign")
        /\ req[p] = req[q]
        /\ ~Assigned(pre[p].ufs, req[p].id, PreFlag(p))
        /\ ~Assigned(pre[q].ufs, req[q].id, PreFlag(q))
        /\ Ok(p) /\ res[q].err = ErrAssign

\* C4: for an existing user and an existing flag key, a successful Assign leaves the pair
\* assigned, and an Assign of a pair that is already assigned returns the
\* already-assigned error and leaves the assignment relation as it was.
C4_AssignThenAlreadyAssigned ==
    \A p \in Procs :
        IsDone(p, "Assign") /\ PreUser(p) /= 0 /\ PreFlag(p) /= 0 =>
            /\ Ok(p) => Assigned(ufs, req[p].id, PreFlag(p))
            /\ Assigned(pre[p].ufs, req[p].id, PreFlag(p))
                  => res[p].err = ErrAlreadyAssigned /\ ufs = pre[p].ufs

\* C4 witness: a second Assign of an assigned pair has returned
C4_Witness ==
    \E p \in Procs :
        /\ IsDone(p, "Assign") /\ PreUser(p) /= 0 /\ PreFlag(p) /= 0
        /\ Assigned(pre[p].ufs, req[p].id, PreFlag(p))
        /\ res[p].err = ErrAlreadyAssigned

\* two finished CreateUser requests for one email, p's issued no later than q's
CreatePair(p, q) ==
    /\ p /= q /\ IsDone(p, "CreateUser") /\ IsDone(q, "CreateUser")
    /\ req[p].email = req[q].email
    /\ DOMAIN pre[p].users \subseteq DOMAIN pre[q].users
EmailRows(us, email) == {i \in DOMAIN us : us[i].email = email}

\* C5 as stated: of two CreateUser requests carrying one email that no stored user holds,
\* sequential or concurrent, exactly one returns success, the other returns the
\* already-exists error, and exactly one user with the email is stored.
C5_OneSuccessOneAlreadyExists ==
    \A p, q \in Procs :
        CreatePair(p, q) /\ EmailRows(pre[p].users, req[p].email) = {} =>
            /\ Ok(p) /= Ok(q)
            /\ \A r \in {p, q} : ~Ok(r) => res[r].err = ErrEmailExists
            /\ Cardinality(EmailRows(users, req[p].email)) = 1

\* C5 amended: of two CreateUser requests carrying one email at most one returns success
\* and every failure is the already-exists error or the store's failure to create; when
\* no stored user row held the email, exactly one returns success and exactly one user
\* with the email is stored, and a request issued after the successful create committed
\* fails with the already-exists error.
C5_OneSuccessOtherRefused ==
    \A p, q \in Procs :
        CreatePair(p, q) =>
            /\ ~(Ok(p) /\ Ok(q))
            /\ \A r \in {p, q} : ~Ok(r) => res[r].err \in {ErrEmailExists, ErrCreateUser}
            /\ EmailRows(pre[p].users, req[p].email) = {} =>
                  /\ Ok(p) /= Ok(q)
                  /\ Cardinality(EmailRows(users, req[p].email)) = 1
                  /\ EmailRows(pre[q].users, req[q].email) /= {}
                        => res[q].err = ErrEmailExists

\* C5 witness: both requests passed the email check and the store refused the second insert
C5_Witness ==
    \E p, q \in Procs :
        /\ CreatePair(p, q) /\ EmailRows(pre[q].users, req[q].email) = {}
        /\ Ok(p) /\ res[q].err = ErrCreateUser

\* C6: no two stored users have the same email and no two stored feature flags have the
\* same key, whatever requests create and update them concurrently.
C6_UniqueEmailsAndKeys ==
    /\ \A i, j \in DOMAIN users : users[i].email = users[j].email => i = j
    /\ \A i, j \in DOMAIN flags : flags[i].key = flags[j].key => i = j

\* C6 witness: a create and an update, or two updates, both passed the email check for one
\* email and the store refused the later write
C6_Witness ==
    \E p, q \in Procs :
        /\ p /= q /\ Done(p) /\ Done(q) /\ Ok(p)
        /\ req[q].op = "UpdateUser" /\ res[q].err = ErrUpdateUser
        /\ req[p].op \in {"CreateUser", "UpdateUser"}
        /\ req[q].email = Some(res[p].email)

\* C9: a soft-deleted user or feature flag never becomes visible again, whatever step a
\* request takes.
C9_SoftDeletedIsTerminal ==
    [][/\ \A i \in DOMAIN users : ~Exists(users, i) => ~Exists(users', i)
       /\ \A i \in DOMAIN flags : ~Exists(flags, i) => ~Exists(flags', i)]_vars

\* C7: CreateUser fails with the already-exists error exactly when a non-deleted user
\* holds the email; in every other state it stores the user and returns it.
C7_CreateUserOutcome ==
    \A p \in Procs :
        IsDone(p, "CreateUser") =>
            IF EmailHeld(pre[p].users, req[p].email)
            THEN res[p].err = ErrEmailExists
            ELSE /\ Ok(p)
                 /\ Exists(users, res[p].id)
                 /\ users[res[p].id].email = req[p].email

\* C8: CreateFeatureFlag fails with the already-exists error exactly when a non-deleted
\* flag holds the key; in every other state it stores the flag and returns it.
C8_CreateFeatureFlagOutcome ==
    \A p \in Procs :
        IsDone(p, "CreateFeatureFlag") =>
            IF KeyHeld(pre[p].flags, req[p].key)
            THEN res[p].err = ErrKeyExists
            ELSE /\ Ok(p)
                 /\ Exists(flags, res[p].id)
                 /\ flags[res[p].id].key = req[p].key

\* C10: for an existing user and an existing flag key whose pair is not assigned,
\* Unassign returns success and leaves the assignment relation unchanged; and after any
\* successful Unassign the pair is not assigned, so a second one changes nothing more.
C10_UnassignUnassigned ==
    \A p \in Procs :
        IsDone(p, "Unassign") /\ PreUser(p) /= 0 /\ PreFlag(p) /= 0 =>
            /\ ~Assigned(pre[p].ufs, req[p].id, PreFlag(p))
                  => Ok(p) /\ ufs = pre[p].ufs
            /\ Ok(p) /\ ~Assigned(ufs, req[p].id, PreFlag(p))

\* C10 witness: an Unassign of an unassigned pair has returned while other pairs are assigned
C10_Witness ==
    \E p \in Procs :
        /\ IsDone(p, "Unassign") /\ PreUser(p) /= 0 /\ PreFlag(p) /= 0
        /\ ~Assigned(pre[p].ufs, req[p].id, PreFlag(p))
        /\ Ok(p)
        /\ \E x \in Rows(ufs) : x[1] = req[p].id

\* C11: GetUserFeatureFlags returns the not-found error whenever the user was never created
\* or has been deleted, whatever assignments reference it, and returns a list with success
\* for an existing user.
C11_GetUserFeatureFlagsNotFound ==
    \A p \in Procs :
        IsDone(p, "GetUserFeatureFlags") =>
            IF Exists(pre[p].users, req[p].id)
            THEN Ok(p) /\ IsFiniteSet(res[p].flags)
            ELSE res[p].err = ErrUserNotFound

\* C11 witness: not found for a deleted user that assignment rows still reference
C11_Witness ==
    \E p \in Procs :
        /\ IsDone(p, "GetUserFeatureFlags") /\ res[p].err = ErrUserNotFound
        /\ req[p].id \in DOMAIN pre[p].users
        /\ \E x \in Rows(ufs) : x[1] = req[p].id

\* C12: once DeleteUser(id) has returned success, a GetUser(id) issued afterwards returns
\* the not-found error and a GetUsers finishing afterwards does not list the user; and
\* GetUser succeeds exactly when the user exists when it is issued.
C12_DeletedUserStaysGone ==
    [][\A p, q \in Procs :
          /\ IsDone(q, "DeleteUser") /\ Ok(q) /\ ~Done(p) /\ Done(p)'
          => /\ req'[p].op = "GetUser" /\ req'[p].id = req[q].id
                   => res'[p].err = ErrUserNotFound
             /\ req'[p].op = "GetUser"
                   => (res'[p].err = OK <=> Exists(pre'[p].users, req'[p].id))
             /\ req'[p].op = "GetUsers"
                   => \A i \in DOMAIN res'[p].users : res'[p].users[i].id /= req[q].id]_vars

\* a finished request that ran with no other request in flight
Alone(p) == \A q \in Procs \ {p} : Idle(q)
\* the value a partial payload gives a field: the payload's when present, else the old one
Patched(field, old) == IF field /= Absent THEN field[1] ELSE old

\* C13: a successful UpdateUser of an existing user sets each field present in the payload
\* to the payload's value, leaves each absent field and every other user as they were, and
\* returns the user as stored.
C13_UpdateUserFrame ==
    \A p \in Procs :
        IsDone(p, "UpdateUser") /\ Alone(p) /\ Ok(p) =>
            LET r == req[p]
                old == pre[p].users[r.id]
                new == users[r.id]
            IN /\ Exists(pre[p].users, r.id) /\ Exists(users, r.id)
               /\ new.name = Patched(r.name, old.name)
               /\ new.email = Patched(r.email, old.email)
               /\ new.enabled = Patched(r.enabled, old.enabled)
               /\ DOMAIN users = DOMAIN pre[p].users
               /\ \A i \in DOMAIN users \ {r.id} : users[i] = pre[p].users[i]
               /\ res[p].id = r.id /\ res[p].name = new.name
               /\ res[p].email = new.email /\ res[p].enabled = new.enabled

\* C13 witness: an update that sets the name and enabled to false, not the email, of one of
\* two users has returned success
C13_Witness ==
    \E p \in Procs :
        /\ IsDone(p, "UpdateUser") /\ Alone(p) /\ Ok(p)
        /\ req[p].name = Some("n2") /\ req[p].enabled = Some(FALSE) /\ req[p].email = Absent
        /\ Cardinality(DOMAIN users) > 1

\* C14: UpdateUser with an email that a different non-deleted user holds fails with the
\* already-exists error and changes no field of the target user; with the target's own
\* current email it is no conflict and succeeds.
C14_UpdateUserEmailConflict ==
    \A p \in Procs :
        /\ IsDone(p, "UpdateUser") /\ Alone(p)
        /\ Exists(pre[p].users, req[p].id) /\ req[p].email /= Absent
        => LET r == req[p]
               holders == {i \in DOMAIN pre[p].users :
                              Exists(pre[p].users, i) /\ pre[p].users[i].email = r.email[1]}
           IN /\ holders \ {r.id} /= {}
                    => res[p].err = ErrEmailExists /\ users = pre[p].users
              /\ r.id \in holders => Ok(p) /\ users[r.id].email = r.email[1]

\* C14 witness: a payload carrying another user's email together with a new name and
\* enabled value was refused
C14_Witness ==
    \E p \in Procs :
        /\ IsDone(p, "UpdateUser") /\ Alone(p) /\ res[p].err = ErrEmailExists
        /\ req[p].name = Some("n2") /\ req[p].enabled = Some(FALSE)

\* C15: the user CreateUser returns, and the user a GetUser issued after it returns for the
\* new id, have the payload's name, email and enabled value, enabled = false included.
C15_CreateGetRoundTrip ==
    \A p, q \in Procs :
        IsDone(p, "CreateUser") /\ Ok(p) =>
            /\ res[p].name = req[p].name /\ res[p].email = req[p].email
            /\ res[p].enabled = req[p].enabled
            /\ IsDone(q, "GetUser") /\ req[q].id = res[p].id /\ res[p].id \in DOMAIN pre[q].users
                  => /\ Ok(q)
                     /\ res[q].name = req[p].name /\ res[q].email = req[p].email
                     /\ res[q].enabled = req[p].enabled
\* the page and page size a list request is owed
EffectivePage(page) == IF page >= 1 THEN page ELSE 1
EffectivePageSize(size) == IF size < 1 THEN 10 ELSE IF size > 100 THEN 100 ELSE size
IsList(p) == req[p].op \in {"GetUsers", "GetFeatureFlags"}

\* C16: a list operation given (page, page_size) queries the store with limit = the
\* effective page size and offset = (effective page - 1) * effective page size, and its
\* response reports the effective page and page size.
C16_PaginationNormalised ==
    \A p \in Procs :
        /\ IsList(p) /\ pc[p] \in {"GetUsers.Find", "GetFeatureFlags.Find"}
              => /\ loc[p].limit = EffectivePageSize(req[p].pageSize)
                 /\ loc[p].offset =
                       (EffectivePage(req[p].page) - 1) * EffectivePageSize(req[p].pageSize)
        /\ IsList(p) /\ Done(p)
              => /\ res[p].page = EffectivePage(req[p].page)
                 /\ res[p].pageSize = EffectivePageSize(req[p].pageSize)
\* C17: CalculateTotalPages(total, pageSize) is 0 when pageSize is 0 and otherwise the least
\* number of pages of pageSize that hold total: pages * pageSize >= total, and
\* (pages - 1) * pageSize < total whenever total > 0.
C17_TotalPagesIsCeiling ==
    \A p \in Procs :
        IsDone(p, "CalculateTotalPages") =>
            LET total == req[p].total
                size == req[p].pageSize
                pages == res[p].pages
            IN IF size = 0
               THEN pages = 0
               ELSE /\ pages >= 0
                    /\ pages * size >= total
                    /\ total = 0 => pages = 0
                    /\ total > 0 => (pages - 1) * size < total

\* C17 witness: a total that leaves a remainder took a page more than the quotient
C17_Witness ==
    \E p \in Procs :
        /\ IsDone(p, "CalculateTotalPages")
        /\ req[p].total = 25 /\ req[p].pageSize = 10 /\ res[p].pages = 3
\* the users a list response holds, and the non-deleted users of a table
Listed(p) == {res[p].users[i].id : i \in DOMAIN res[p].users}
Active(us) == {i \in DOMAIN us : Exists(us, i)}
Least(a, b) == IF a < b THEN a ELSE b

\* C18: with N non-deleted users GetUsers(page p, page size s), normalised, returns
\* total = N and min(s, max(0, N - (p - 1) * s)) users, none of them deleted or repeated;
\* and pages read from one state of the store that make up pages 1..total_pages hold every
\* non-deleted user exactly once.
C18_PagesPartitionUsers ==
    \A p, q \in Procs :
        IsDone(p, "GetUsers") =>
            LET n == Cardinality(Active(users))
                page == EffectivePage(req[p].page)
                size == EffectivePageSize(req[p].pageSize)
                left == IF n > (page - 1) * size THEN n - (page - 1) * size ELSE 0
            IN /\ res[p].total = n
               /\ Len(res[p].users) = Least(size, left)
               /\ Listed(p) \subseteq Active(users)
               /\ Cardinality(Listed(p)) = Len(res[p].users)
               /\ /\ p /= q /\ IsDone(q, "GetUsers")
                  /\ EffectivePageSize(req[q].pageSize) = size
                  /\ {page, EffectivePage(req[q].page)} = 1..res[p].totalPages
                  => /\ Listed(p) \cup Listed(q) = Active(users)
                     /\ page /= EffectivePage(req[q].page) => Listed(p) \cap Listed(q) = {}

\* C19: no service operation recovers a store failure silently: a request during which a
\* store call failed with an error other than record-not-found (the GetByEmail / GetByKey
\* uniqueness pre-check of CreateUser, CreateFeatureFlag and UpdateUser included) returns
\* an error and, no other request running, has written nothing to the store
StoreCallFailed(p) == "failed" \in DOMAIN pre[p]

C19_StoreFailureNotSilent ==
    \A p \in Procs :
        Done(p) /\ StoreCallFailed(p) =>
            /\ ~Ok(p)
            /\ Alone(p) => /\ users = pre[p].users
                           /\ flags = pre[p].flags
                           /\ ufs = pre[p].ufs

\* C20: the two repository queries over the assignment relation are inverse: in every
\* reachable state, for every user u and flag f, f is in GetUserFeatureFlags(u) if and only
\* if u is in GetFeatureFlagUsers(f), and both hold exactly when (u, f) is a current
\* assignment
C20_QueriesInverse ==
    \A u \in UserIds, f \in FlagIds :
        /\ f \in RepoGetUserFeatureFlags(flags, ufs, u)
              <=> u \in RepoGetFeatureFlagUsers(users, ufs, f)
        /\ f \in RepoGetUserFeatureFlags(flags, ufs, u) <=> Assigned(ufs, u, f)
        /\ u \in RepoGetFeatureFlagUsers(users, ufs, f) <=> Assigned(ufs, u, f)

\* C21: a feature flag's key never changes after creation: no step gives a stored flag
\* another key or removes its row, and an UpdateFeatureFlag returning success with no other
\* request running leaves the flag's key as it was, sets description and enabled to the
\* payload's values where present and leaves them as they were where absent, changes no
\* other flag and returns the flag as stored
Returns(p, op) == pc[p] /= "done" /\ pc'[p] = "done" /\ req'[p].op = op

C21_KeyImmutable ==
    [][/\ \A i \in DOMAIN flags : i \in DOMAIN flags' /\ flags'[i].key = flags[i].key
       /\ \A p \in Procs :
              Returns(p, "UpdateFeatureFlag") /\ res'[p].err = OK /\ Alone(p) =>
                  LET r == req'[p]
                      old == pre'[p].flags[r.id]
                      new == flags'[r.id]
                  IN /\ new.key = old.key
                     /\ new.description = Patched(r.description, old.description)
                     /\ new.enabled = Patched(r.enabled, old.enabled)
                     /\ \A i \in DOMAIN flags' \ {r.id} : flags'[i] = pre'[p].flags[i]
                     /\ res'[p].id = r.id /\ res'[p].key = new.key
                     /\ res'[p].description = new.description
                     /\ res'[p].enabled = new.enabled]_vars

\* C21 witness: an update that sets another description and another enabled value of one of
\* two flags has returned success
C21_Witness ==
    \E p \in Procs :
        /\ IsDone(p, "UpdateFeatureFlag") /\ Alone(p) /\ Ok(p)
        /\ Cardinality(DOMAIN flags) > 1
        /\ req[p].description /= Absent /\ req[p].enabled /= Absent
        /\ flags[req[p].id].description /= pre[p].flags[req[p].id].description
        /\ flags[req[p].id].enabled /= pre[p].flags[req[p].id].enabled

\* what a request left of the tables it started from
StoreKept(p) == users = pre[p].users /\ flags = pre[p].flags /\ ufs = pre[p].ufs

\* C22 as stated: AssignFeatureFlagToUser checks in the order flag (NotFound), user
\* (NotFound), isAssigned (AlreadyAssigned), then inserts; the earliest failing check gives
\* the error (the flag's NotFound when both flag and user are absent), and no failing call
\* changes the store
C22_AssignChecksFlagFirst ==
    \A p \in Procs :
        IsDone(p, "Assign") =>
            /\ res[p].err = IF PreFlag(p) = 0 THEN ErrFlagNotFound
                            ELSE IF PreUser(p) = 0 THEN ErrUserNotFound
                            ELSE IF Assigned(pre[p].ufs, req[p].id, PreFlag(p))
                                 THEN ErrAlreadyAssigned
                                 ELSE OK
            /\ ~Ok(p) => StoreKept(p)

\* C22 amended: AssignFeatureFlagToUser checks in the order user (NotFound), flag
\* (NotFound), isAssigned (AlreadyAssigned), then inserts; the earliest failing check gives
\* the error (the user's NotFound when both user and flag are absent), and no failing call
\* changes the store
C22_AssignChecksUserFirst ==
    \A p \in Procs :
        IsDone(p, "Assign") =>
            /\ res[p].err = IF PreUser(p) = 0 THEN ErrUserNotFound
                            ELSE IF PreFlag(p) = 0 THEN ErrFlagNotFound
                            ELSE IF Assigned(pre[p].ufs, req[p].id, PreFlag(p))
                                 THEN ErrAlreadyAssigned
                                 ELSE OK
            /\ ~Ok(p) => StoreKept(p)

\* C22 witness: an assign naming a deleted user and a key of no existing flag has returned
C22_Witness ==
    \E p \in Procs :
        /\ IsDone(p, "Assign") /\ PreUser(p) = 0 /\ PreFlag(p) = 0
        /\ req[p].id \in DOMAIN pre[p].users
        /\ res[p].err = ErrUserNotFound

\* C23: UnassignFeatureFlagFromUser returns NotFound, and leaves the assignment relation
\* unchanged, whenever the user or the flag key does not resolve to a non-deleted entity,
\* even if an assignment row for that pair is still stored; when both resolve it returns
\* success and afterwards the pair is not assigned
NotFound == {ErrUserNotFound, ErrFlagNotFound}

C23_UnassignNotFound ==
    \A p \in Procs :
        IsDone(p, "Unassign") =>
            IF PreUser(p) = 0 \/ PreFlag(p) = 0
            THEN res[p].err \in NotFound /\ ufs = pre[p].ufs
            ELSE Ok(p) /\ ~Assigned(ufs, req[p].id, PreFlag(p))

\* C23 witness: an unassign naming a deleted user, whose assignment row for a flag of the
\* key given is still stored, has returned NotFound
C23_Witness ==
    \E p \in Procs :
        /\ IsDone(p, "Unassign") /\ PreUser(p) = 0 /\ PreFlag(p) /= 0
        /\ Assigned(pre[p].ufs, req[p].id, PreFlag(p))
        /\ res[p].err \in NotFound

\* C24: DeleteUser and DeleteFeatureFlag return NotFound and leave the store unchanged when
\* the id was never created or is already deleted, and succeed otherwise; so of two deletes
\* of the same id, one after the other, the first succeeds and the second returns NotFound
C24_DeleteAbsentNotFound ==
    \A p \in Procs :
        /\ IsDone(p, "DeleteUser") =>
               IF Exists(pre[p].users, req[p].id)
               THEN Ok(p) /\ ~Exists(users, req[p].id)
               ELSE res[p].err = ErrUserNotFound /\ StoreKept(p)
        /\ IsDone(p, "DeleteFeatureFlag") =>
               IF Exists(pre[p].flags, req[p].id)
               THEN Ok(p) /\ ~Exists(flags, req[p].id)
               ELSE res[p].err = ErrFlagNotFound /\ StoreKept(p)

\* C24 witness: a delete of an already deleted user has returned NotFound
C24_Witness ==
    \E p \in Procs :
        /\ IsDone(p, "DeleteUser")
        /\ req[p].id \in DOMAIN pre[p].users /\ pre[p].users[req[p].id].deleted
        /\ res[p].err = ErrUserNotFound

\* C25: under any interleaving of concurrent DeleteUser requests for the same existing
\* user, at most one returns success and every other one returns NotFound
C25_OneDeleteSucceeds ==
    \A p, q \in Procs :
        /\ p /= q /\ IsDone(p, "DeleteUser") /\ IsDone(q, "DeleteUser")
        /\ req[p].id = req[q].id
        /\ Exists(pre[p].users, req[p].id) /\ Exists(pre[q].users, req[q].id)
        => \/ Ok(p) /\ res[q].err = ErrUserNotFound
           \/ Ok(q) /\ res[p].err = ErrUserNotFound

\* C26: no lost update: when two concurrent UpdateUser requests on the same user, with
\* payloads touching disjoint fields, both return success, the stored user afterwards
\* carries both new values, under every interleaving of their reads and writes
Supplied(p, u) ==
    /\ req[p].name /= Absent => u.name = req[p].name[1]
    /\ req[p].email /= Absent => u.email = req[p].email[1]
    /\ req[p].enabled /= Absent => u.enabled = req[p].enabled[1]

DisjointFields(p, q) ==
    /\ req[p].name = Absent \/ req[q].name = Absent
    /\ req[p].email = Absent \/ req[q].email = Absent
    /\ req[p].enabled = Absent \/ req[q].enabled = Absent

C26_NoLostUpdate ==
    \A p, q \in Procs :
        /\ p /= q /\ IsDone(p, "UpdateUser") /\ IsDone(q, "UpdateUser")
        /\ req[p].id = req[q].id /\ DisjointFields(p, q)
        /\ Ok(p) /\ Ok(q)
        => Supplied(p, users[req[p].id]) /\ Supplied(q, users[req[q].id])

\* C27: UpdateUser never changes the assignment relation: under every interleaving with
\* Assign and Unassign requests for the same user, the assignment rows after each write of
\* the update are those immediately before it; an assignment removed by an Unassign between
\* the update's read and its save is not created again
Writes(p, op) == req[p].op = op /\ pc[p] \notin {"idle", "done"} /\ pc'[p] /= pc[p]

C27_UpdateKeepsAssignments ==
    [][\A p \in Procs : Writes(p, "UpdateUser") => Rows(ufs') = Rows(ufs)]_vars

\* C28: for an existing user u, GetUserFeatureFlags(u) returns exactly one entry for each
\* non-deleted feature flag f with (u, f) in the assignment relation and nothing else (no
\* flag assigned only to other users, no soft-deleted flag, no duplicates), each entry with
\* that flag's current id, key, description and enabled value
FlagsOf(uid) == {f \in DOMAIN flags : Exists(flags, f) /\ Assigned(ufs, uid, f)}

C28_UserFlagsExact ==
    \A p \in Procs :
        IsDone(p, "GetUserFeatureFlags") /\ Exists(pre[p].users, req[p].id) =>
            /\ Ok(p)
            /\ res[p].flags = {[id |-> f, key |-> flags[f].key,
                                description |-> flags[f].description,
                                enabled |-> flags[f].enabled] : f \in FlagsOf(req[p].id)}
            /\ res[p].len = Cardinality(FlagsOf(req[p].id))

\* C28 witness: a user assigned an existing flag and a deleted flag, while another user
\* has an assignment too, has been returned its one flag
C28_Witness ==
    \E p \in Procs :
        /\ IsDone(p, "GetUserFeatureFlags") /\ Ok(p)
        /\ res[p].len = 1
        /\ \E x \in Rows(ufs) : x[1] = req[p].id /\ ~Exists(flags, x[2])
        /\ \E x \in Rows(ufs) : x[1] /= req[p].id

\* C29: AssignFeatureFlagToUser(u, k) and UnassignFeatureFlagFromUser(u, k) change at most
\* the single pair (u, flag(k)) of the assignment relation: every other assignment row,
\* every user row and every feature-flag row is the same after the call as before it,
\* whether the call succeeds or fails
C29_AssignUnassignFrame ==
    \A p \in Procs :
        IsDone(p, "Assign") \/ IsDone(p, "Unassign") =>
            /\ users = pre[p].users
            /\ flags = pre[p].flags
            /\ \A x \in Rows(ufs) \cup Rows(pre[p].ufs) :
                   x /= <<req[p].id, PreFlag(p)>> => CopiesIn(x, ufs) = CopiesIn(x, pre[p].ufs)

\* C29 witness: an unassign has removed one pair of a user while that user's other flag and
\* another user's assignment of the same flag are still stored
C29_Witness ==
    \E p \in Procs :
        /\ IsDone(p, "Unassign") /\ Ok(p)
        /\ Assigned(pre[p].ufs, req[p].id, PreFlag(p))
        /\ ~Assigned(ufs, req[p].id, PreFlag(p))
        /\ \E x \in Rows(ufs) : x[1] = req[p].id /\ x[2] /= PreFlag(p)
        /\ \E x \in Rows(ufs) : x[1] /= req[p].id /\ x[2] = PreFlag(p)

\* C30: the HTTP handlers respond 404 with code 'not_found' exactly when the service error
\* is 'user not found' or 'feature flag not found', and 500 for every other service error,
\* the domain errors 'email already exists', 'feature flag key already exists' and
\* 'feature flag already assigned to user' included; a successful create responds 201 and
\* every other successful operation 200
Written(p) == pc[p] = "written"

C30_HandlerStatus ==
    \A p \in Procs :
        Written(p) =>
            /\ res[p].http.status = 404 <=> res[p].err \in NotFound
            /\ res[p].http.status = 404 => res[p].http.error = "not_found"
            /\ res[p].http.status = 500 <=> res[p].err \notin NotFound \cup {OK}
            /\ res[p].http.status = 201 <=>
                   res[p].err = OK /\ req[p].op \in {"CreateUser", "CreateFeatureFlag"}
            /\ res[p].http.status = 200 <=>
                   res[p].err = OK /\ req[p].op \notin {"CreateUser", "CreateFeatureFlag"}

\* C30 witness: an assign of an already assigned flag has been answered 500
C30_Witness ==
    \E p \in Procs :
        /\ Written(p) /\ req[p].op = "Assign"
        /\ res[p].err = ErrAlreadyAssigned /\ res[p].http.status = 500

====
